---- MODULE Spec2Model ----
(***************************************************************************)
(* Authentication / session-validation core of the FastAPI service:        *)
(* the process-wide active-token registry, the per-request identity        *)
(* resolver (get_current_user), the access guard                           *)
(* (get_current_active_user), the user CRUD handlers behind the guard and  *)
(* the global exception handler.                                           *)
(*                                                                         *)
(* Requests run as coroutines on one event loop: the code between two      *)
(* awaits is one atomic step, and other requests may run at every await.   *)
(* get_current_user awaits once (the user query, dependencies.py:30), so a *)
(* protected request is: enter (lines 17-30), resume (lines 31-43), then   *)
(* the route handler.                                                      *)
(*                                                                         *)
(* app/routers/auth.py and app/utils/security.py are not part of the       *)
(* available sources: login, token encoding/decoding and revocation are    *)
(* modelled from the specification text (sections 4.1-4.3, 6).             *)
(***************************************************************************)
EXTENDS Integers, FiniteSets, Sequences, TLC

\* ---------------------------------------------------------------- bounds
MaxUsers  == 2      \* user ids ever allocated (the seeded user included)
MaxTokens == 2      \* distinct (token, user) issues over a run

\* ------------------------------------------------------ program constants
ACCESS_TOKEN_EXPIRE_MINUTES == 30

\* The clock has two instants: process start, and the first minute at which
\* every token minted at process start has expired.
Expired == ACCESS_TOKEN_EXPIRE_MINUTES + 1

\* ------------------------------------------------------------ input sets
Names     == {"alice", "bob"}
Emails    == {"a@x.io", "b@x.io"}
Passwords == {"pw1"}                 \* passwords users choose
Attempts  == Passwords \cup {"guess"} \* passwords a login may present
Slots     == {"r1"}                \* concurrently in-flight protected requests
Ids       == 1..MaxUsers
None      == "None"                \* Python None for an optional field
OptBool   == {"True", "False", None} \* an optional bool of a request body

VARIABLES
    active_tokens,   \* dependencies.py:11, the process-wide set
    users,           \* the users table: id -> row, for the ids that exist
    nextId,          \* next fresh primary key (ids are never reused)
    clock,           \* wall clock, minutes
    issued,          \* history: every (token, user id) login ever returned
    revoked,         \* history: tokens whose latest registry operation is revoke
    pc,              \* per slot: "idle", "lookup" (awaiting line 30), "handler"
    tok,             \* per slot: the bearer token of the request
    cur,             \* per slot: id of current_user once resolved, else 0
    out,             \* per slot: what the slot's latest request was answered, and by whom
    pending          \* per slot: what the request's database session has not committed yet

vars == <<active_tokens, users, nextId, clock, issued, revoked, pc, tok, cur, out, pending>>

\* ----------------------------------------------------------- responses
Response(s, d, w) == [status |-> s, detail |-> d, www |-> w]

\* dependencies.py:17-21
credentials_exception == Response(401, "Could not validate credentials", "Bearer")

\* dependencies.py:42
inactive_exception == Response(400, "Inactive user", "-")

\* main.py:36-44
global_exception_handler == Response(500, "Internal server error", "-")

NoResponse == Response(0, "-", "-")
Ok(s) == Response(s, "ok", "-")

\* ------------------------------------------------------------ tokens
NoToken == [sub |-> "-", exp |-> 0, sig |-> "-"]

\* A token whose signature does not verify under SECRET_KEY.
ForgedToken == [sub |-> "alice", exp |-> 0, sig |-> "forged"]

\* spec 4.2: signed encoding of {sub, exp}; deterministic in (username, now).
create_access_token(username, now) ==
    [sub |-> username, exp |-> now + ACCESS_TOKEN_EXPIRE_MINUTES, sig |-> "ok"]

\* spec 4.4 step 2-3: the subject, or None when the signature does not verify
\* or the expiry has passed.
decode_access_token(t, now) ==
    IF t.sig = "ok" /\ now <= t.exp THEN t.sub ELSE None

\* one-way digest of a password (spec 4.1)
get_password_hash(pw) == <<"hash", pw>>

verify_password(pw, hashed) == get_password_hash(pw) = hashed

\* ------------------------------------------------------------ registry
\* the membership test with its sense inverted
is_active_negated(t) == t \notin active_tokens

\* dependencies.py:23, the membership test
is_active(t) == t \in active_tokens

\* spec 4.3 register: a single set insert
register(t) == active_tokens \cup {t}

\* spec 4.3 revoke: a single set removal
revoke(t) == active_tokens \ {t}

\* ------------------------------------------------------------ store
User(e, u, h, a) == [email |-> e, username |-> u, hashed_password |-> h, is_active |-> a]

\* select(User).where(User.username == username)
ByUsername(store, username) == {i \in DOMAIN store : store[i].username = username}

\* select(User).where(User.email == email)
ByEmail(store, email) == {i \in DOMAIN store : store[i].email = email}

TheOne(S) == CHOOSE x \in S : TRUE

\* every token string a caller can present: the ones some login returned,
\* and one that was never signed by this process
IssuedTokens == {i.tok : i \in issued}

Presentable == IssuedTokens \cup {ForgedToken}

IssuedTo(t) == {i.uid : i \in {j \in issued : j.tok = t}}

\* ------------------------------------------------------------ answers
\* Per request: what the state was at each test of the dependency chain, and
\* what the caller was answered.
\*   by, resp     the function that answered and its response ("-" while pending)
\*   bearer       the token the request came with
\*   inReg, decodes, afterRevoke
\*                at line 23-26: the token was in the registry; its signature was
\*                valid and its expiry not passed; its latest registry operation
\*                was a revoke
\*   found, active, uid, fault
\*                when the query of line 30 returned: some row had the subject as
\*                username; such a row had is_active true; the id of the row
\*                returned; the store failed instead
Blank ==
    [by |-> "-", resp |-> NoResponse, bearer |-> NoToken,
     inReg |-> FALSE, decodes |-> FALSE, afterRevoke |-> FALSE,
     found |-> FALSE, active |-> FALSE, uid |-> 0, fault |-> FALSE]

Out(by, r) == [Blank EXCEPT !.by = by, !.resp = r]

AtChecks(t) ==
    [Blank EXCEPT !.bearer = t,
                  !.inReg = t \in active_tokens,
                  !.decodes = (t.sig = "ok" /\ clock <= t.exp),
                  !.afterRevoke = t \in revoked]

AtLookup(o, dbFault) ==
    LET ids == {i \in DOMAIN users : users[i].username = o.bearer.sub}
    IN [o EXCEPT !.fault = dbFault,
                 !.found = ~ dbFault /\ ids # {},
                 !.active = ~ dbFault /\ \E i \in ids : users[i].is_active,
                 !.uid = IF ~ dbFault /\ Cardinality(ids) = 1
                         THEN CHOOSE i \in ids : TRUE ELSE 0]

Answer(o, by, r) == [o EXCEPT !.by = by, !.resp = r]

\* ------------------------------------------------------------ sessions
\* What a request's AsyncSession holds between the handler's last test and its
\* await db.commit(): a row to insert (kind "add"), or the columns of row id
\* that were assigned a new value (kind "update"; None: column not assigned).
\* database.py:37-42: a session that ends without commit is closed, and what
\* it held is dropped.
NoPending ==
    [kind |-> "-", id |-> 0, email |-> None, username |-> None,
     password |-> None, active |-> None]

\* ------------------------------------------------------------ Init
Init ==
    /\ active_tokens = {}
    /\ users = (1 :> User("a@x.io", "alice", get_password_hash("pw1"), TRUE))
    /\ nextId = 2
    /\ clock = 0
    /\ issued = {}
    /\ revoked = {}
    /\ pc = [p \in Slots |-> "idle"]
    /\ tok = [p \in Slots |-> NoToken]
    /\ cur = [p \in Slots |-> 0]
    /\ out = [p \in Slots |-> Blank]
    /\ pending = [p \in Slots |-> NoPending]

\* ------------------------------------------------------------ frame helpers
Respond(p, o) ==
    /\ pc' = [pc EXCEPT ![p] = "idle"]
    /\ tok' = [tok EXCEPT ![p] = NoToken]
    /\ cur' = [cur EXCEPT ![p] = 0]
    /\ out' = [out EXCEPT ![p] = o]
    /\ pending' = [pending EXCEPT ![p] = NoPending]

\* ------------------------------------------------------------ login
\* spec 4.1: look the user up by username, compare the password digest
verify(store, username, password) ==
    LET ids == ByUsername(store, username)
    IN IF ids = {} THEN 0
       ELSE IF verify_password(password, store[TheOne(ids)].hashed_password)
            THEN TheOne(ids) ELSE 0

\* spec 4.2 / 6: Login. On success mint the token, register it, return it.
login(username, password) ==
    LET uid == verify(users, username, password)
        t   == create_access_token(username, clock)
    IN /\ IF uid # 0
          THEN /\ [tok |-> t, uid |-> uid] \in issued \/ Cardinality(issued) < MaxTokens
               /\ active_tokens' = register(t)
               /\ issued' = issued \cup {[tok |-> t, uid |-> uid]}
               /\ revoked' = revoked \ {t}
          ELSE UNCHANGED <<active_tokens, issued, revoked>>
       /\ UNCHANGED <<users, nextId, clock, pc, tok, cur, out, pending>>

\* spec 4.3 / 6: Logout revokes the presented token.
logout(t) ==
    /\ t \in Presentable
    /\ active_tokens' = revoke(t)
    /\ revoked' = (revoked \cup {t}) \cap IssuedTokens
    /\ UNCHANGED <<users, nextId, clock, issued, pc, tok, cur, out, pending>>

\* ------------------------------------------------------------ environment
\* Time passes, from process start to the instant Expired.
Tick ==
    /\ clock < Expired
    /\ clock' = Expired
    /\ UNCHANGED <<active_tokens, users, nextId, issued, revoked, pc, tok, cur, out, pending>>

\* ------------------------------------------------------------ identity resolver
\* get_current_user with the registry test inverted
get_current_user_checks_inverted(t, now) ==
    IF is_active(t) THEN credentials_exception
    ELSE IF decode_access_token(t, now) = None THEN credentials_exception
    ELSE NoResponse

\* get_current_user without the registry test of line 23
get_current_user_checks_no_registry(t, now) ==
    IF decode_access_token(t, now) = None THEN credentials_exception
    ELSE NoResponse

\* dependencies.py:23-28: the exception raised before the query, or NoResponse
get_current_user_checks(t, now) ==
    IF ~ is_active(t) THEN credentials_exception
    ELSE IF decode_access_token(t, now) = None THEN credentials_exception
    ELSE NoResponse

\* get_current_user answering 404 when the subject names no user
get_current_user_lookup_not_found(store, username, dbFault) ==
    LET ids == ByUsername(store, username)
    IN IF dbFault THEN [resp |-> global_exception_handler, uid |-> 0]
       ELSE IF Cardinality(ids) > 1 THEN [resp |-> global_exception_handler, uid |-> 0]
       ELSE IF ids = {} THEN [resp |-> Response(404, "User not found", "-"), uid |-> 0]
       ELSE [resp |-> NoResponse, uid |-> TheOne(ids)]

\* get_current_user with the query wrapped in a try/except that raises
\* credentials_exception
get_current_user_lookup_swallow(store, username, dbFault) ==
    LET ids == ByUsername(store, username)
    IN IF dbFault \/ Cardinality(ids) # 1
       THEN [resp |-> credentials_exception, uid |-> 0]
       ELSE [resp |-> NoResponse, uid |-> TheOne(ids)]

\* dependencies.py:30-36: the user query and its result.  dbFault: the store
\* raised; more than one row makes scalar_one_or_none raise.  Anything raised that
\* is not an HTTPException reaches main.py's handler.
get_current_user_lookup(store, username, dbFault) ==
    LET ids == ByUsername(store, username)
    IN IF dbFault THEN [resp |-> global_exception_handler, uid |-> 0]
       ELSE IF Cardinality(ids) > 1 THEN [resp |-> global_exception_handler, uid |-> 0]
       ELSE IF ids = {} THEN [resp |-> credentials_exception, uid |-> 0]
       ELSE [resp |-> NoResponse, uid |-> TheOne(ids)]

\* get_current_active_user with the is_active test inverted
get_current_active_user_inverted(store, uid) ==
    IF store[uid].is_active THEN inactive_exception ELSE NoResponse

\* get_current_active_user raising the resolver's credentials_exception
get_current_active_user_unauthorized(store, uid) ==
    IF ~ store[uid].is_active THEN credentials_exception ELSE NoResponse

\* dependencies.py:38-43
get_current_active_user(store, uid) ==
    IF ~ store[uid].is_active THEN inactive_exception ELSE NoResponse

\* get_current_user dropping a registered token it finds expired
get_current_user_enter_sweep(p, t) ==
    /\ pc[p] = "idle"
    /\ t \in Presentable
    /\ LET r == get_current_user_checks(t, clock)
       IN IF r = NoResponse
          THEN /\ pc' = [pc EXCEPT ![p] = "lookup"]
               /\ tok' = [tok EXCEPT ![p] = t]
               /\ cur' = cur
               /\ out' = [out EXCEPT ![p] = AtChecks(t)]
               /\ pending' = pending
               /\ active_tokens' = active_tokens
          ELSE /\ Respond(p, Answer(AtChecks(t), "get_current_user", r))
               /\ active_tokens' = IF decode_access_token(t, clock) = None
                                   THEN active_tokens \ {t} ELSE active_tokens
    /\ UNCHANGED <<users, nextId, clock, issued, revoked>>

\* A protected request arrives with bearer token t: lines 17-30, up to the await.
get_current_user_enter(p, t) ==
    /\ pc[p] = "idle"
    /\ t \in Presentable
    /\ LET r == get_current_user_checks(t, clock)
       IN IF r = NoResponse
          THEN /\ pc' = [pc EXCEPT ![p] = "lookup"]
               /\ tok' = [tok EXCEPT ![p] = t]
               /\ cur' = cur
               /\ out' = [out EXCEPT ![p] = AtChecks(t)]
               /\ pending' = pending
          ELSE Respond(p, Answer(AtChecks(t), "get_current_user", r))
    /\ UNCHANGED <<active_tokens, users, nextId, clock, issued, revoked>>

\* The query returns: lines 31-36, then get_current_active_user, lines 38-43.
\* dbFault: the relational store fails while the query is awaited.
get_current_user_resume(p, dbFault) ==
    /\ pc[p] = "lookup"
    /\ LET r == get_current_user_lookup(users, tok[p].sub, dbFault)
           g == IF r.resp = NoResponse
                THEN get_current_active_user(users, r.uid) ELSE r.resp
           o == AtLookup(out[p], dbFault)
       IN IF r.resp # NoResponse
          THEN Respond(p, Answer(o, "get_current_user", r.resp))
          ELSE IF g # NoResponse
          THEN Respond(p, Answer(o, "get_current_active_user", g))
          ELSE /\ pc' = [pc EXCEPT ![p] = "handler"]
               /\ cur' = [cur EXCEPT ![p] = r.uid]
               /\ out' = [out EXCEPT ![p] = o]
               /\ tok' = tok
               /\ pending' = pending
    /\ UNCHANGED <<active_tokens, users, nextId, clock, issued, revoked>>

\* ------------------------------------------------------------ route handlers
\* Each runs once get_current_active_user has returned (pc = "handler").

\* users.py:14-51 and the products routes: handlers that read, or write only
\* tables this model does not hold.
get_user(p) ==
    /\ pc[p] = "handler"
    /\ Respond(p, Out("get_user", Ok(200)))
    /\ UNCHANGED <<active_tokens, users, nextId, clock, issued, revoked>>

\* The request goes on to its commit: the session holds q.
Hold(p, q) ==
    /\ pc' = [pc EXCEPT ![p] = "commit"]
    /\ pending' = [pending EXCEPT ![p] = q]
    /\ UNCHANGED <<tok, cur, out>>

\* users.py:53-91, up to the await of line 92.  adminRole: whether the roles
\* table holds a role named "admin" (the roles routes are not modelled).
create_user(p, email, username, password, adminRole) ==
    /\ pc[p] = "handler"
    /\ LET existing == ByEmail(users, email) \cup ByUsername(users, username)
           o(r) == Out("create_user", r)
       IN IF Cardinality(existing) > 1
          THEN Respond(p, o(global_exception_handler))
          ELSE IF existing # {}
          THEN Respond(p, o(Response(400, "Email or username already registered", "-")))
          ELSE IF ~ adminRole
          THEN Respond(p, o(Response(400, "Default role 'admin' not found", "-")))
          ELSE Hold(p, [kind |-> "add", id |-> 0, email |-> email,
                        username |-> username, password |-> password,
                        active |-> "True"])
    /\ UNCHANGED <<active_tokens, users, nextId, clock, issued, revoked>>

\* users.py:92-95: the INSERT is committed under a fresh primary key.
create_user_commit(p) ==
    /\ pc[p] = "commit"
    /\ pending[p].kind = "add"
    /\ nextId <= MaxUsers
    /\ LET q == pending[p]
       IN users' = users @@
             (nextId :> User(q.email, q.username, get_password_hash(q.password), TRUE))
    /\ nextId' = nextId + 1
    /\ Respond(p, Out("create_user", Ok(201)))
    /\ UNCHANGED <<active_tokens, clock, issued, revoked>>

\* users.py:97-145, up to the await of line 147.  None: the field is not in
\* the request body.  full_name and role_id are not part of the modelled row.
\* An attribute assigned the value it already has is not a change of the row.
update_user(p, user_id, email, username, password, active) ==
    /\ pc[p] = "handler"
    /\ LET o(r) == Out("update_user", r)
           sameEmail == IF email = None THEN {} ELSE ByEmail(users, email) \ {user_id}
           sameName == IF username = None THEN {}
                       ELSE ByUsername(users, username) \ {user_id}
       IN IF user_id \notin DOMAIN users
          THEN Respond(p, o(Response(404, "User not found", "-")))
          ELSE IF Cardinality(sameEmail) > 1
          THEN Respond(p, o(global_exception_handler))
          ELSE IF sameEmail # {}
          THEN Respond(p, o(Response(400, "Email already registered", "-")))
          ELSE IF Cardinality(sameName) > 1
          THEN Respond(p, o(global_exception_handler))
          ELSE IF sameName # {}
          THEN Respond(p, o(Response(400, "Username already taken", "-")))
          ELSE LET u == users[user_id]
               IN Hold(p, [kind |-> "update", id |-> user_id,
                           email |-> IF email = u.email THEN None ELSE email,
                           username |-> IF username = u.username THEN None ELSE username,
                           password |-> IF password = None
                                           \/ get_password_hash(password) = u.hashed_password
                                        THEN None ELSE password,
                           active |-> IF active = None \/ (active = "True") = u.is_active
                                      THEN None ELSE active])
    /\ UNCHANGED <<active_tokens, users, nextId, clock, issued, revoked>>

\* users.py:147-150: the UPDATE of the assigned columns is committed.  A row
\* deleted meanwhile makes the flush raise (no row matched).
update_user_commit(p) ==
    /\ pc[p] = "commit"
    /\ pending[p].kind = "update"
    /\ LET q == pending[p]
           o(r) == Out("update_user", r)
       IN IF q.id \notin DOMAIN users
          THEN /\ Respond(p, o(global_exception_handler))
               /\ users' = users
          ELSE LET u == users[q.id]
                   n == User(IF q.email = None THEN u.email ELSE q.email,
                             IF q.username = None THEN u.username ELSE q.username,
                             IF q.password = None THEN u.hashed_password
                                                  ELSE get_password_hash(q.password),
                             IF q.active = None THEN u.is_active ELSE q.active = "True")
               IN /\ users' = [users EXCEPT ![q.id] = n]
                  /\ Respond(p, o(Ok(200)))
    /\ UNCHANGED <<active_tokens, nextId, clock, issued, revoked>>

\* users.py:152-170
delete_user(p, user_id) ==
    /\ pc[p] = "handler"
    /\ LET o(r) == Out("delete_user", r)
       IN IF user_id \notin DOMAIN users
          THEN /\ Respond(p, o(Response(404, "User not found", "-")))
               /\ users' = users
          ELSE /\ users' = [i \in DOMAIN users \ {user_id} |-> users[i]]
               /\ Respond(p, o(Ok(204)))
    /\ UNCHANGED <<active_tokens, nextId, clock, issued, revoked>>

\* ------------------------------------------------------------ specification
Next ==
    \/ \E u \in Names, pw \in Attempts : login(u, pw)
    \/ \E t \in Presentable : logout(t)
    \/ Tick
    \/ \E p \in Slots, t \in Presentable : get_current_user_enter(p, t)
    \/ \E p \in Slots, dbFault \in BOOLEAN : get_current_user_resume(p, dbFault)
    \/ \E p \in Slots : get_user(p)
    \/ \E p \in Slots, e \in Emails, u \in Names, pw \in Passwords, r \in BOOLEAN :
          create_user(p, e, u, pw, r)
    \/ \E p \in Slots : create_user_commit(p)
    \/ \E p \in Slots, i \in Ids, e \in Emails \cup {None}, u \in Names \cup {None},
          pw \in Passwords \cup {None}, a \in OptBool :
          update_user(p, i, e, u, pw, a)
    \/ \E p \in Slots : update_user_commit(p)
    \/ \E p \in Slots, i \in Ids : delete_user(p, i)

Spec == Init /\ [][Next]_vars

\* ------------------------------------------------------------ two requests in flight
\* The same service with two protected requests in flight at a time: each
\* runs on its own coroutine with its own database session, and the other
\* may run at every await.  The clock stands still, no token is revoked and
\* the store does not fail: those are Spec's cases.
Writers == {"w1", "w2"}

InitW ==
    /\ active_tokens = {}
    /\ users = (1 :> User("a@x.io", "alice", get_password_hash("pw1"), TRUE))
    /\ nextId = 2
    /\ clock = 0
    /\ issued = {}
    /\ revoked = {}
    /\ pc = [p \in Writers |-> "idle"]
    /\ tok = [p \in Writers |-> NoToken]
    /\ cur = [p \in Writers |-> 0]
    /\ out = [p \in Writers |-> Blank]
    /\ pending = [p \in Writers |-> NoPending]

NextW ==
    \/ \E u \in Names, pw \in Passwords : login(u, pw)
    \/ \E p \in Writers, t \in IssuedTokens : get_current_user_enter(p, t)
    \/ \E p \in Writers : get_current_user_resume(p, FALSE)
    \/ \E p \in Writers, e \in Emails, u \in Names, pw \in Passwords, r \in BOOLEAN :
          create_user(p, e, u, pw, r)
    \/ \E p \in Writers : create_user_commit(p)
    \/ \E p \in Writers, i \in Ids, e \in Emails \cup {None}, u \in Names \cup {None},
          pw \in Passwords \cup {None}, a \in OptBool :
          update_user(p, i, e, u, pw, a)
    \/ \E p \in Writers : update_user_commit(p)
    \/ \E p \in Writers, i \in Ids : delete_user(p, i)

SpecW == InitW /\ [][NextW]_vars

\* ============================================================ properties
InHandler(p) == pc[p] \in {"handler", "commit"}

Answered(p, f) == pc[p] = "idle" /\ out[p].by = f

\* A registered, unexpired token of an existing active user is around.
SomeoneHonorable ==
    \E t \in active_tokens :
        /\ decode_access_token(t, clock) # None
        /\ \E i \in DOMAIN users : users[i].username = t.sub /\ users[i].is_active

C2_SameOutcomeForEveryCheck ==
    \A p \in Slots :
        /\ pc[p] = "idle"
        /\ out[p].by \in {"get_current_user", "get_current_active_user"}
        /\ ~ out[p].fault
        => out[p].resp = credentials_exception

\* C2 (amended): a request refused because its token is not in the registry,
\* does not decode, or names no existing user gets one and the same answer,
\* credentials_exception (401, "Could not validate credentials",
\* WWW-Authenticate: Bearer); a request refused because the user it names has
\* is_active false gets another answer, inactive_exception (400).
C2_UniformUnauthorized ==
    \A p \in Slots :
        pc[p] = "idle" /\ out[p].bearer # NoToken /\ ~ out[p].fault =>
            /\ (~ out[p].inReg \/ ~ out[p].decodes \/ ~ out[p].found)
                  => out[p].resp = credentials_exception
            /\ (out[p].inReg /\ out[p].decodes /\ out[p].found /\ ~ out[p].active)
                  => out[p].resp = inactive_exception
            /\ inactive_exception # credentials_exception

\* a registered, unexpired token whose subject names no user was refused
C2_Witness ==
    \E p \in Slots :
        /\ Answered(p, "get_current_user")
        /\ out[p].inReg /\ out[p].decodes /\ ~ out[p].fault /\ ~ out[p].found
        /\ out[p].resp = credentials_exception

\* C3: a request whose token resolved to a user (the query of line 30 returned
\* one row) is answered inactive_exception by get_current_active_user if and
\* only if that row's is_active was false, and otherwise goes on to its handler
\* with that same user.
C3_InactiveIffFlagFalse ==
    \A p \in Slots :
        /\ out[p].uid # 0 /\ pc[p] # "lookup" =>
              /\ ~ out[p].active <=>
                     (Answered(p, "get_current_active_user")
                         /\ out[p].resp = inactive_exception)
              /\ out[p].active <=> (InHandler(p) /\ cur[p] = out[p].uid)
        /\ Answered(p, "get_current_active_user") =>
              out[p].uid # 0 /\ out[p].resp = inactive_exception

\* the user a registered, unexpired token was issued to has been deactivated,
\* and the call with that token was answered inactive_exception
C3_Witness ==
    \E p \in Slots :
        /\ Answered(p, "get_current_active_user")
        /\ out[p].resp = inactive_exception
        /\ out[p].inReg /\ out[p].decodes
        /\ out[p].uid \in IssuedTo(out[p].bearer)
        /\ out[p].uid \in DOMAIN users /\ ~ users[out[p].uid].is_active

\* C4: is_active(t) is true exactly for the tokens whose latest registry
\* operation is register(t): true from register(t) until revoke(t), false from
\* revoke(t) until the next register(t), whatever was done with other tokens;
\* and false for every token at process start.
C4_RegistryContract ==
    /\ \A t \in Presentable :
          is_active(t) <=> (t \in IssuedTokens /\ t \notin revoked)
    /\ issued = {} => active_tokens = {}

\* one token is registered while another one has been revoked
C4_Witness ==
    \E t1 \in IssuedTokens, t2 \in IssuedTokens :
        t1 # t2 /\ is_active(t1) /\ t2 \in revoked /\ ~ is_active(t2)

\* C5 (as stated): a token that has been revoked, or whose expiry has passed,
\* is refused by the tests of lines 23-28 after every further step.
C5_NoWayBackToActive ==
    [][\A t \in IssuedTokens :
          (t \in revoked \/ clock > t.exp) =>
              (get_current_user_checks(t, clock) # NoResponse)']_vars

\* C6: only tokens that a successful login returned are in the registry, every
\* returned token is in the registry until it is revoked, and a protected call
\* with a returned token passes the whole chain as the user it was issued to,
\* as long as the token is not revoked, its expiry has not passed and that user
\* still exists under the same username and is active.
C6_LoginRegistersBeforeReturning ==
    /\ active_tokens \subseteq IssuedTokens
    /\ \A i \in issued :
          /\ i.tok \notin revoked => is_active(i.tok)
          /\ ( /\ i.tok \notin revoked
               /\ clock <= i.tok.exp
               /\ i.uid \in DOMAIN users
               /\ users[i.uid].username = i.tok.sub
               /\ users[i.uid].is_active
               /\ ByUsername(users, i.tok.sub) = {i.uid} )
             => /\ get_current_user_checks(i.tok, clock) = NoResponse
                /\ get_current_user_lookup(users, i.tok.sub, FALSE)
                      = [resp |-> NoResponse, uid |-> i.uid]
                /\ get_current_active_user(users, i.uid) = NoResponse

\* a call with a returned token is in its handler as the user the token was
\* issued to, the token still being registered
C6_Witness ==
    \E p \in Slots :
        /\ pc[p] = "handler"
        /\ cur[p] \in IssuedTo(tok[p])
        /\ is_active(tok[p])
        /\ users[cur[p]].is_active

\* C7: a request during whose user query the store failed is answered by the
\* global exception handler (500), once: it is over, its handler did not run
\* and the answer is not credentials_exception.
C7_FaultIsServerError ==
    \A p \in Slots :
        out[p].fault =>
            /\ pc[p] = "idle"
            /\ out[p].by = "get_current_user"
            /\ out[p].resp = global_exception_handler
            /\ out[p].resp.status = 500
            /\ out[p].resp # credentials_exception

\* the store failed for a request whose token is registered and unexpired and
\* names an active user
C7_Witness ==
    \E p \in Slots :
        /\ out[p].fault /\ out[p].inReg /\ out[p].decodes
        /\ out[p].bearer \in active_tokens
        /\ SomeoneHonorable
        /\ out[p].resp = global_exception_handler

\* C8: a step of get_current_user or get_current_active_user, whether it lets
\* the request go on or answers it, leaves the registry and every user row as
\* they were.
C8_ResolveIsReadOnly ==
    [][\A p \in Slots :
          (pc[p] \in {"idle", "lookup"} /\ (pc'[p] # pc[p] \/ out'[p] # out[p]))
              => UNCHANGED <<active_tokens, users>>]_vars

\* a registered token was refused after its expiry and is still registered
C8_Witness ==
    \E p \in Slots :
        /\ Answered(p, "get_current_user")
        /\ out[p].resp = credentials_exception
        /\ out[p].inReg /\ ~ out[p].decodes
        /\ out[p].bearer \in active_tokens
        /\ clock > out[p].bearer.exp

C10_ResolvesToIssuedUser ==
    \A p \in Slots : pc[p] = "handler" => cur[p] \in IssuedTo(tok[p])

\* C11 (as stated): no two stored users share a username, and no two share an
\* email.
C11_UniqueUsernameAndEmail ==
    \A i \in DOMAIN users, j \in DOMAIN users :
        i # j => /\ users[i].username # users[j].username
                 /\ users[i].email # users[j].email

====
